---- MODULE Spec2Model ----
(***************************************************************************)
(* Model of the HealthArchive dataset release tooling:                     *)
(*   scripts/build_release.py            (HTTP retry client, paginated     *)
(*                                        NDJSON exporter, bundle builder) *)
(*   scripts/validate_release_bundle.py  (bundle validator)                *)
(*                                                                         *)
(* Optional values (Python's None) are sets with at most one element:      *)
(* None is {} and the integer v is {v}.                                    *)
(***************************************************************************)
EXTENDS Integers, Sequences, FiniteSets, TLC

\* ------------------------------------------------------------- bounds

\* Lines the free server sends over one export (all pages together).
MaxLines == 3
\* Integer ids the free server puts into rows: 1..MaxId.
MaxId == 3
\* --limit values tried: 1..MaxArgLimit; maxLimit values served: 0..MaxArgLimit.
MaxArgLimit == 2
\* Readings of the clock.
Clock == {"2026-01-01T00:00:00+00:00", "2026-01-02T00:00:00+00:00"}

\* ---------------------------------------------------- program constants

\* _http_json(..., retries: int = 4)
JsonRetries == 4
\* _http_ndjson_stream(..., retries: int = 4)
StreamRetries == 4
\* parser.add_argument("--limit", type=int, default=10000, ...)
DefaultLimit == 10000

\* ------------------------------------------------------------ helpers

None == {}
Some(v) == {v}
TheValue(o) == CHOOSE v \in o : TRUE

Streams == {"snapshots", "changes"}

\* path= and id_field= arguments of the two calls in main.
PathOf(s) == IF s = "snapshots" THEN "/api/exports/snapshots" ELSE "/api/exports/changes"
IdFieldOf(s) == IF s = "snapshots" THEN "snapshot_id" ELSE "change_id"
FilenameOf(s) ==
    IF s = "snapshots" THEN "healtharchive-snapshots.jsonl.gz"
    ELSE "healtharchive-changes.jsonl.gz"

(***************************************************************************)
(* One raw line of a response body, as the iteration over the response     *)
(* yields it.  kind: "blank" (only whitespace), "row" (a JSON object),     *)
(* "bad" (bytes json.loads or obj.get fails on).  id: the value of the id  *)
(* field when it is an integer, None when absent or not an integer.        *)
(* nl: whether the raw line ends with a newline.                           *)
(***************************************************************************)
Row(i, nl) == [kind |-> "row", id |-> Some(i), nl |-> nl]
RowNoId(nl) == [kind |-> "row", id |-> None, nl |-> nl]
Blank(nl) == [kind |-> "blank", id |-> None, nl |-> nl]
Bad(nl) == [kind |-> "bad", id |-> None, nl |-> nl]

LinesOver(ids) ==
    {Row(i, nl) : i \in ids, nl \in BOOLEAN}
        \cup {RowNoId(nl) : nl \in BOOLEAN}
        \cup {Blank(nl) : nl \in BOOLEAN}
        \cup {Bad(nl) : nl \in BOOLEAN}

\* Sequences of length at most n over S.
RECURSIVE SeqsUpTo(_, _)
SeqsUpTo(S, n) ==
    IF n = 0 THEN {<<>>}
    ELSE LET shorter == SeqsUpTo(S, n - 1)
         IN shorter \cup {Append(s, x) : s \in {t \in shorter : Len(t) = n - 1}, x \in S}

\* A response body: only its last line can lack the trailing newline.
IsBody(p) == \A k \in 1..Len(p) : k < Len(p) => p[k].nl

PagesUpTo(n) == {p \in SeqsUpTo(LinesOver(1..MaxId), n) : IsBody(p)}

\* The bodies of at most n lines, for each n up to MaxLines.
PagesByBudget == [n \in 0..MaxLines |-> PagesUpTo(n)]

RECURSIVE SumLen(_)
SumLen(ps) == IF ps = <<>> THEN 0 ELSE Len(ps[1]) + SumLen(Tail(ps))

\* ---------------------------------------------------------- file system

\* JSON values, as json.dumps writes and json.loads reads them: the type t
\* and the number n, string s or boolean b; an object also has its members o.
JInt(n) == [t |-> "int", n |-> n, s |-> "", b |-> FALSE]
JStr(str) == [t |-> "str", n |-> 0, s |-> str, b |-> FALSE]
JBool(b) == [t |-> "bool", n |-> 0, s |-> "", b |-> b]
JNull == [t |-> "null", n |-> 0, s |-> "", b |-> FALSE]
JObj(o) == [t |-> "obj", n |-> 0, s |-> "", b |-> FALSE, o |-> o]
JOptInt(o) == IF o = None THEN JNull ELSE JInt(TheValue(o))

\* A file of the output directory: kind "absent", "gz" (rows: the lines the
\* archive decompresses to), "json" (doc: the JSON value in it), "text"
\* (entries: its lines, each the tuple of its tokens), "garbage" (bytes that
\* are none of these).
NoFile == [kind |-> "absent", rows |-> <<>>, doc |-> JNull, entries |-> <<>>]
\* Mutant: the gzip header carries the time of writing (no mtime=0).
GzFileStamped(lines) ==
    [kind |-> "gz", rows |-> lines, doc |-> JNull, entries |-> << <<"mtime">> >>]
GzFile(lines) == [kind |-> "gz", rows |-> lines, doc |-> JNull, entries |-> <<>>]
JsonFile(doc) == [kind |-> "json", rows |-> <<>>, doc |-> doc, entries |-> <<>>]
TextFile(lines) == [kind |-> "text", rows |-> <<>>, doc |-> JNull, entries |-> lines]
GarbageFile == [kind |-> "garbage", rows |-> <<>>, doc |-> JNull, entries |-> <<>>]

FileNames ==
    {"healtharchive-snapshots.jsonl.gz", "healtharchive-changes.jsonl.gz",
     "manifest.json", "SHA256SUMS"}

\* -------------------------------------------------------------- state

VARIABLES
    pc,             \* position of the running program
    stream,         \* which of main's two exporter calls is running
    limit,          \* limit= argument of the exporter
    ex,             \* locals of _download_export_to_gzip_jsonl
    http,           \* locals of the running _http_json / _http_ndjson_stream call
    resp,           \* the response the exporter iterates over
    gz,             \* the gzip sink: "unopened", "open", "closed"
    files,          \* the output directory
    leaked,         \* a response object was dropped without close()
    result,         \* what the exporter returned, None before
    error,          \* the exception that ended the program, None before
    served,         \* pages the server has served to the running export
    reqLog,         \* page requests the running export has built
    script,         \* the scripted server's pages for each stream
    free,           \* TRUE: the server may answer a page request with any page
    args,           \* main's command line: --limit and --tag
    exports_manifest, \* the capability document main fetched, None before
    metas,          \* snapshots_meta and changes_meta, None before
    shas,           \* snapshots_sha and changes_sha, None before
    vres,           \* how the validator ended, None before
    mtime_kw        \* whether this interpreter's gzip.open takes mtime=

vars ==
    <<pc, stream, limit, ex, http, resp, gz, files, leaked, result, error,
      served, reqLog, script, free, args, exports_manifest, metas, shas, vres,
      mtime_kw>>

NoResp == [state |-> "none", body |-> <<>>, pos |-> 0]
NoHttp == [url |-> [path |-> "", limit |-> 0, afterId |-> None],
           fn |-> "none", retries |-> 0, attempt |-> 0, last_exc |-> "none",
           attempts |-> 0, sleeps |-> <<>>]

\* Locals of the exporter before the loop.
ExInit ==
    [after_id |-> None, rows |-> 0, min_id |-> None, max_id |-> None,
     requests_made |-> 0, page_rows |-> 0, last_id |-> None]

\* ------------------------------------------------------ HTTP retry client

\* time.sleep(1.5**attempt): the delay as the fraction 3^attempt / 2^attempt.
Backoff(attempt) == [num |-> 3 ^ attempt, den |-> 2 ^ attempt]

\* Mutant: the loop is left one failure late.
LastAttemptOffByOne(attempt, retries) == attempt > retries

\* `if attempt >= retries: break`
LastAttempt(attempt, retries) == attempt >= retries

\* The except-branch of both retry loops: remember the exception, then either
\* leave the loop or sleep and go round again.
AfterFailure(h, exc) ==
    IF LastAttempt(h.attempt, h.retries)
    THEN [h EXCEPT !.last_exc = exc, !.attempts = @ + 1]
    ELSE [h EXCEPT !.last_exc = exc, !.attempts = @ + 1,
                   !.sleeps = Append(@, Backoff(h.attempt)),
                   !.attempt = @ + 1]

NoUrl == [path |-> "", limit |-> 0, afterId |-> None]

\* An exception that ends the program: its kind, the URL its message carries
\* (NoUrl when it carries none) and the underlying error it names.
Raised(kind, url, cause) == Some([kind |-> kind, url |-> url, cause |-> cause])

\* The RuntimeError raised after the loop: f"Failed to ... from {url}: {last_exc}".
FetchError(h) == Raised("fetch", h.url, h.last_exc)

\* ------------------------------------------------------------- exporter

\* Lines 121-125: the id of one row folded into the page's last_id and the
\* run's min_id / max_id.
FoldId(e, value) ==
    IF value = None THEN e
    ELSE [e EXCEPT !.last_id = value,
                   !.min_id = IF e.min_id = None THEN value ELSE @,
                   !.max_id = value]

\* Mutant: the line is written as it was received.
TerminatedAsSent(raw) == raw

\* Lines 115-118: the line written to the sink ends with a newline.
Terminated(raw) == IF raw.nl THEN raw ELSE [raw EXCEPT !.nl = TRUE]

\* Mutant: the end of the export is told by the run's rows, not the page's.
PageVerdictByTotalRows(e) ==
    IF e.rows = 0 THEN "break"
    ELSE IF e.last_id = None THEN "no_id"
    ELSE IF e.after_id # None /\ TheValue(e.last_id) <= TheValue(e.after_id)
         THEN "no_advance"
    ELSE "continue"

\* Mutant: a cursor that stays where it was is let through.
PageVerdictAllowsEqual(e) ==
    IF e.page_rows = 0 THEN "break"
    ELSE IF e.last_id = None THEN "no_id"
    ELSE IF e.after_id # None /\ TheValue(e.last_id) < TheValue(e.after_id)
         THEN "no_advance"
    ELSE "continue"

\* Mutant: a page of rows without ids is let through.
PageVerdictIgnoresMissingId(e) ==
    IF e.page_rows = 0 THEN "break"
    ELSE IF e.last_id # None /\ e.after_id # None
            /\ TheValue(e.last_id) <= TheValue(e.after_id)
         THEN "no_advance"
    ELSE "continue"

\* Mutant: rows without an id only stop the run on its first page.
PageVerdictNoIdOnlyAtStart(e) ==
    IF e.page_rows = 0 THEN "break"
    ELSE IF e.last_id = None /\ e.rows = e.page_rows THEN "no_id"
    ELSE IF e.last_id = None THEN "continue"
    ELSE IF e.after_id # None /\ TheValue(e.last_id) <= TheValue(e.after_id)
         THEN "no_advance"
    ELSE "continue"

\* Lines 131-139: what the exporter does once a page is exhausted.
PageVerdict(e) ==
    IF e.page_rows = 0 THEN "break"
    ELSE IF e.last_id = None THEN "no_id"
    ELSE IF e.after_id # None /\ TheValue(e.last_id) <= TheValue(e.after_id)
         THEN "no_advance"
    ELSE "continue"

\* Mutant: the dict reports the requests without the page that ended the run.
ExportMetaSkipsLastPage(s, e, lim) ==
    [path |-> PathOf(s), idField |-> IdFieldOf(s), rows |-> e.rows,
     minId |-> e.min_id, maxId |-> e.max_id, limitPerRequest |-> lim,
     requestsMade |-> e.requests_made - 1, filename |-> FilenameOf(s)]

\* Lines 141-150: the dict the exporter returns.
ExportMeta(s, e, lim) ==
    [path |-> PathOf(s), idField |-> IdFieldOf(s), rows |-> e.rows,
     minId |-> e.min_id, maxId |-> e.max_id, limitPerRequest |-> lim,
     requestsMade |-> e.requests_made, filename |-> FilenameOf(s)]

\* Lines 88-95: the locals, and gzip.open(out_path, "wb", compresslevel=6,
\* mtime=0) truncating the file, on an interpreter whose gzip.open takes the
\* mtime keyword.
ExportOpen ==
    /\ pc = "open"
    /\ mtime_kw
    /\ ex' = ExInit
    /\ files' = [files EXCEPT ![FilenameOf(stream)] = GzFile(<<>>)]
    /\ gz' = "open"
    /\ served' = <<>>
    /\ reqLog' = <<>>
    /\ pc' = "request"
    /\ UNCHANGED <<stream, limit, http, resp, leaked, result, error, script, free,
                   args, exports_manifest, metas, shas, vres, mtime_kw>>

\* Lines 88-95 on an interpreter whose gzip.open(filename, mode, compresslevel,
\* encoding, errors, newline) takes no mtime keyword (CPython 3.11): the call
\* raises TypeError before the file is touched, and the exporter is left with
\* no sink opened and no request made.
ExportOpenRejected ==
    /\ pc = "open"
    /\ ~mtime_kw
    /\ ex' = ExInit
    /\ served' = <<>>
    /\ reqLog' = <<>>
    /\ error' = Raised("sink", NoUrl, "TypeError")
    /\ pc' = "failed"
    /\ UNCHANGED <<stream, limit, http, resp, gz, files, leaked, result, script,
                   free, args, exports_manifest, metas, shas, vres, mtime_kw>>

\* Lines 97-106 and 53-60: the page URL, and the start of _http_ndjson_stream.
BuildRequest ==
    /\ pc = "request"
    /\ LET url == [path |-> PathOf(stream), limit |-> limit, afterId |-> ex.after_id]
       IN /\ http' = [url |-> url, fn |-> "_http_ndjson_stream",
                      retries |-> StreamRetries, attempt |-> 0,
                      last_exc |-> "none", attempts |-> 0, sleeps |-> <<>>]
          /\ reqLog' = Append(reqLog, url)
    /\ pc' = "fetch"
    /\ UNCHANGED <<stream, limit, ex, resp, gz, files, leaked, result, error,
                   served, script, free,
                   args, exports_manifest, metas, shas, vres, mtime_kw>>

\* The pages the server can answer the next page request with.
ServerPages ==
    IF free
    THEN PagesByBudget[MaxLines - SumLen(served)]
    ELSE IF Len(served) < Len(script[stream])
         THEN {script[stream][Len(served) + 1]}
         ELSE {}

\* Lines 61-69, the attempt succeeds: the open response is returned (the
\* locals of _http_ndjson_stream are gone), and the exporter resets page_rows
\* and last_id (lines 107-108).
StreamAttemptOk ==
    /\ pc = "fetch"
    /\ \E page \in ServerPages :
          /\ resp' = [state |-> "open", body |-> page, pos |-> 0]
          /\ served' = Append(served, page)
    /\ http' = NoHttp
    /\ ex' = [ex EXCEPT !.page_rows = 0, !.last_id = None]
    /\ pc' = "read"
    /\ UNCHANGED <<stream, limit, gz, files, leaked, result, error, reqLog,
                   script, free,
                   args, exports_manifest, metas, shas, vres, mtime_kw>>

\* Mutant: every attempt, failed ones too, counts as a request made.
StreamAttemptFailCounted ==
    /\ pc = "fetch"
    /\ \E exc \in {"transport", "status"} :
          /\ http' = AfterFailure(http, exc)
          /\ leaked' = (leaked \/ exc = "status")
          /\ IF LastAttempt(http.attempt, http.retries)
             THEN /\ error' = FetchError(http')
                  /\ gz' = "closed"
                  /\ pc' = "failed"
             ELSE UNCHANGED <<error, gz, pc>>
    /\ ex' = [ex EXCEPT !.requests_made = @ + 1]
    /\ UNCHANGED <<stream, limit, resp, files, result, served, reqLog,
                   script, free,
                   args, exports_manifest, metas, shas, vres, mtime_kw>>

\* Lines 61-75, the attempt fails: urlopen raises ("transport"), or the
\* response has a status other than 200 ("status"; that response is never
\* closed).  After the last attempt the RuntimeError leaves the exporter
\* through the with-block, which closes the sink.
StreamAttemptFail ==
    /\ pc = "fetch"
    /\ \E exc \in {"transport", "status"} :
          /\ http' = AfterFailure(http, exc)
          /\ leaked' = (leaked \/ exc = "status")
          /\ IF LastAttempt(http.attempt, http.retries)
             THEN /\ error' = FetchError(http')
                  /\ gz' = "closed"
                  /\ pc' = "failed"
             ELSE UNCHANGED <<error, gz, pc>>
    /\ UNCHANGED <<stream, limit, ex, resp, files, result, served, reqLog,
                   script, free,
                   args, exports_manifest, metas, shas, vres, mtime_kw>>

\* Lines 110-126, one iteration of `for raw_line in resp`.
ReadLine ==
    /\ pc = "read"
    /\ resp.pos < Len(resp.body)
    /\ LET raw_line == resp.body[resp.pos + 1]
           counted == [ex EXCEPT !.page_rows = @ + 1, !.rows = @ + 1]
       IN CASE raw_line.kind = "blank" ->
                 /\ resp' = [resp EXCEPT !.pos = @ + 1]
                 /\ UNCHANGED <<ex, files, gz, error, pc>>
            [] raw_line.kind = "bad" ->
                 \* json.loads / obj.get raises: finally closes the response,
                 \* the with-block closes the sink.
                 /\ ex' = counted
                 /\ resp' = [resp EXCEPT !.pos = @ + 1, !.state = "closed"]
                 /\ gz' = "closed"
                 /\ error' = Raised("parse", NoUrl, "json")
                 /\ pc' = "failed"
                 /\ UNCHANGED files
            [] raw_line.kind = "row" ->
                 /\ ex' = FoldId(counted, raw_line.id)
                 /\ files' = [files EXCEPT ![FilenameOf(stream)] =
                                 GzFile(Append(@.rows, Terminated(raw_line)))]
                 /\ resp' = [resp EXCEPT !.pos = @ + 1]
                 /\ UNCHANGED <<gz, error, pc>>
    /\ UNCHANGED <<stream, limit, http, leaked, result, served, reqLog, script, free,
                   args, exports_manifest, metas, shas, vres, mtime_kw>>

\* Line 110, the iteration itself raises (the connection breaks mid-body).
ReadError ==
    /\ pc = "read"
    /\ resp' = [resp EXCEPT !.state = "closed"]
    /\ gz' = "closed"
    /\ error' = Raised("read", NoUrl, "transport")
    /\ pc' = "failed"
    /\ UNCHANGED <<stream, limit, ex, http, files, leaked, result, served,
                   reqLog, script, free,
                   args, exports_manifest, metas, shas, vres, mtime_kw>>

\* Lines 127-150: the page is exhausted.
PageEnd ==
    /\ pc = "read"
    /\ resp.pos = Len(resp.body)
    /\ resp' = [resp EXCEPT !.state = "closed"]
    /\ LET e == [ex EXCEPT !.requests_made = @ + 1]
           verdict == PageVerdict(e)
       IN CASE verdict = "break" ->
                 /\ ex' = e
                 /\ gz' = "closed"
                 /\ result' = Some(ExportMeta(stream, e, limit))
                 /\ pc' = "returned"
                 /\ UNCHANGED error
            [] verdict = "continue" ->
                 /\ ex' = [e EXCEPT !.after_id = e.last_id]
                 /\ pc' = "request"
                 /\ UNCHANGED <<gz, result, error>>
            [] OTHER ->
                 /\ ex' = e
                 /\ gz' = "closed"
                 /\ error' = Raised(verdict, NoUrl, "protocol")
                 /\ pc' = "failed"
                 /\ UNCHANGED result
    /\ UNCHANGED <<stream, limit, http, files, leaked, served, reqLog, script, free,
                   args, exports_manifest, metas, shas, vres, mtime_kw>>

Exporter ==
    \/ ExportOpen
    \/ ExportOpenRejected
    \/ BuildRequest
    \/ StreamAttemptOk
    \/ StreamAttemptFail
    \/ ReadLine
    \/ ReadError
    \/ PageEnd

\* ------------------------------------------------------------- builder

\* _sha256_file: the hex digest of a file, which stands for exactly the
\* bytes hashed (no two files share one).
Sha256(file) == [alg |-> "sha256", of |-> file]

\* A JSON string holding a hex digest.
JDigest(d) == [t |-> "str", n |-> 0, s |-> "hex", b |-> FALSE, digest |-> d]

\* The /api/exports payload: enabled and maxLimit, each possibly absent.
CapabilityJson(doc) ==
    [k \in ({"enabled" : x \in doc.enabled} \cup {"maxLimit" : x \in doc.maxLimit}) |->
        IF k = "enabled" THEN JBool(TheValue(doc.enabled))
        ELSE JInt(TheValue(doc.maxLimit))]

Min(a, b) == IF a <= b THEN a ELSE b

\* Line 176: int(exports_manifest.get("maxLimit") or args.limit).
MaxLimitOf(doc, argLimit) ==
    IF doc.maxLimit = None \/ TheValue(doc.maxLimit) = 0
    THEN argLimit
    ELSE TheValue(doc.maxLimit)

\* Line 177.
EffectiveLimit(doc, argLimit) == Min(argLimit, MaxLimitOf(doc, argLimit))

\* Lines 212-213: {**meta, "sha256": sha}.
ArtifactJson(meta, sha) ==
    [path |-> JStr(meta.path), idField |-> JStr(meta.idField),
     rows |-> JInt(meta.rows), minId |-> JOptInt(meta.minId),
     maxId |-> JOptInt(meta.maxId), limitPerRequest |-> JInt(meta.limitPerRequest),
     requestsMade |-> JInt(meta.requestsMade), filename |-> JStr(meta.filename),
     sha256 |-> JDigest(sha)]

\* Lines 204-222.
ManifestJson(tag, now, doc, snapMeta, snapSha, chMeta, chSha) ==
    [version |-> JInt(1),
     tag |-> JStr(tag),
     releasedAtUtc |-> JStr(now),
     apiBase |-> JStr("https://api.healtharchive.ca"),
     sourceProjectUrl |-> JStr("https://healtharchive.ca"),
     exportsManifest |-> JObj(CapabilityJson(doc)),
     artifacts |-> JObj([snapshots |-> JObj(ArtifactJson(snapMeta, snapSha)),
                         changes |-> JObj(ArtifactJson(chMeta, chSha))]),
     notes |-> JObj([metadataOnly |-> JBool(TRUE), noRawHtml |-> JBool(TRUE),
                     noDiffBodies |-> JBool(TRUE), notMedicalAdvice |-> JBool(TRUE),
                     notCurrentGuidance |-> JBool(TRUE)])]

\* Lines 229-239: "<digest>  <filename>" lines, each a tuple of its tokens.
SumsLines(snapSha, chSha, manifestSha) ==
    << <<snapSha, FilenameOf("snapshots")>>,
       <<chSha, FilenameOf("changes")>>,
       <<manifestSha, "manifest.json">> >>

\* Lines 153-172 and 29-36: the arguments are parsed and _http_json starts.
CapabilityRequest ==
    /\ pc = "main"
    /\ http' = [url |-> [path |-> "/api/exports", limit |-> 0, afterId |-> None],
                fn |-> "_http_json", retries |-> JsonRetries, attempt |-> 0,
                last_exc |-> "none", attempts |-> 0, sleeps |-> <<>>]
    /\ pc' = "fetch_json"
    /\ UNCHANGED <<stream, limit, ex, resp, gz, files, leaked, result, error,
                   served, reqLog, script, free, args, exports_manifest, metas,
                   shas, vres, mtime_kw>>

\* Documents the capability endpoint may answer with.
CapabilityDocs ==
    [enabled : {None, Some(TRUE), Some(FALSE)},
     maxLimit : {None} \cup {Some(n) : n \in 0..MaxArgLimit}]

\* Lines 37-43, the attempt succeeds: the payload is decoded and returned.
JsonAttemptOk ==
    /\ pc = "fetch_json"
    /\ \E doc \in CapabilityDocs : exports_manifest' = Some(doc)
    /\ http' = NoHttp
    /\ pc' = "negotiate"
    /\ UNCHANGED <<stream, limit, ex, resp, gz, files, leaked, result, error,
                   served, reqLog, script, free, args, metas, shas, vres, mtime_kw>>

\* Lines 37-49, the attempt fails: urlopen raises, the status is not 200 (the
\* with-block closes the response) or the payload does not decode.
JsonAttemptFail ==
    /\ pc = "fetch_json"
    /\ \E exc \in {"transport", "status", "decode"} :
          /\ http' = AfterFailure(http, exc)
          /\ IF LastAttempt(http.attempt, http.retries)
             THEN /\ error' = FetchError(http')
                  /\ pc' = "failed"
             ELSE UNCHANGED <<error, pc>>
    /\ UNCHANGED <<stream, limit, ex, resp, gz, files, leaked, result, served,
                   reqLog, script, free, args, exports_manifest, metas, shas, vres, mtime_kw>>

\* Mutant: only a document without the key counts as disabled.
ExportsEnabledUnlessAbsent(doc) == doc.enabled # None

\* Line 173: exports_manifest.get("enabled") is truthy.
ExportsEnabled(doc) == doc.enabled = Some(TRUE)

\* Lines 173-180.
Negotiate ==
    /\ pc = "negotiate"
    /\ LET doc == TheValue(exports_manifest)
       IN IF ~ExportsEnabled(doc)
          THEN /\ error' = Raised("disabled", NoUrl, "none")
               /\ pc' = "failed"
               /\ UNCHANGED <<limit, stream>>
          ELSE /\ limit' = EffectiveLimit(doc, args.limit)
               /\ stream' = "snapshots"
               /\ pc' = "open"
               /\ UNCHANGED error
    /\ UNCHANGED <<ex, http, resp, gz, files, leaked, result, served, reqLog,
                   script, free, args, exports_manifest, metas, shas, vres, mtime_kw>>

\* Mutant: main writes a first manifest as soon as the snapshots export is in.
ExportReturnedWritesManifest ==
    /\ pc = "returned"
    /\ metas' = [metas EXCEPT ![stream] = result]
    /\ result' = None
    /\ IF stream = "snapshots"
       THEN /\ stream' = "changes"
            /\ pc' = "open"
            /\ files' = [files EXCEPT !["manifest.json"] =
                            JsonFile(JObj([tag |-> JStr(args.tag)]))]
       ELSE pc' = "hash" /\ UNCHANGED <<stream, files>>
    /\ UNCHANGED <<limit, ex, http, resp, gz, leaked, error, served,
                   reqLog, script, free, args, exports_manifest, shas, vres, mtime_kw>>

\* Lines 182-199: the exporter's dict is bound to snapshots_meta / changes_meta,
\* and the changes export follows the snapshots export.
ExportReturned ==
    /\ pc = "returned"
    /\ metas' = [metas EXCEPT ![stream] = result]
    /\ result' = None
    /\ IF stream = "snapshots"
       THEN stream' = "changes" /\ pc' = "open"
       ELSE pc' = "hash" /\ UNCHANGED stream
    /\ UNCHANGED <<limit, ex, http, resp, gz, files, leaked, error, served,
                   reqLog, script, free, args, exports_manifest, shas, vres, mtime_kw>>

\* Lines 201-202.
HashArtifacts ==
    /\ pc = "hash"
    /\ shas' = [s \in Streams |-> Some(Sha256(files[FilenameOf(s)]))]
    /\ pc' = "manifest"
    /\ UNCHANGED <<stream, limit, ex, http, resp, gz, files, leaked, result,
                   error, served, reqLog, script, free, args, exports_manifest,
                   metas, vres, mtime_kw>>

\* Lines 204-225; _utc_now_iso() is whatever the clock says.
WriteManifest ==
    /\ pc = "manifest"
    /\ \E now \in Clock :
          files' = [files EXCEPT !["manifest.json"] =
                       JsonFile(JObj(ManifestJson(args.tag, now, TheValue(exports_manifest),
                                    TheValue(metas["snapshots"]), TheValue(shas["snapshots"]),
                                    TheValue(metas["changes"]), TheValue(shas["changes"]))))]
    /\ pc' = "sums"
    /\ UNCHANGED <<stream, limit, ex, http, resp, gz, leaked, result, error,
                   served, reqLog, script, free, args, exports_manifest, metas,
                   shas, vres, mtime_kw>>

\* Lines 226-245.
WriteSums ==
    /\ pc = "sums"
    /\ files' = [files EXCEPT !["SHA256SUMS"] =
                    TextFile(SumsLines(TheValue(shas["snapshots"]),
                                       TheValue(shas["changes"]),
                                       Sha256(files["manifest.json"])))]
    /\ pc' = "done"
    /\ UNCHANGED <<stream, limit, ex, http, resp, gz, leaked, result, error,
                   served, reqLog, script, free, args, exports_manifest, metas,
                   shas, vres, mtime_kw>>

Builder ==
    \/ CapabilityRequest
    \/ JsonAttemptOk
    \/ JsonAttemptFail
    \/ Negotiate
    \/ ExportReturned
    \/ HashArtifacts
    \/ WriteManifest
    \/ WriteSums

\* ----------------------------------------------------------- validator

Has(obj, key) == key \in DOMAIN obj

\* isinstance(v, int): Python's bool is an int, True being 1.
IsInt(j) == j.t \in {"int", "bool"}
IntOf(j) == IF j.t = "bool" THEN (IF j.b THEN 1 ELSE 0) ELSE j.n

\* isinstance(v, str) and v.strip(): whitespace-only strings are written " ".
IsNonEmptyStr(j) == j.t = "str" /\ j.s \notin {"", " "}

\* The digest a string holds; any other text is the digest of no file.
DigestOfStr(j) ==
    IF Has(j, "digest") THEN j.digest
    ELSE [alg |-> "none", of |-> NoFile]

\* The message a failed validation ends with: which check, on which
\* artifact or file, about which field.
VErr(check, name, field) == [check |-> check, name |-> name, field |-> field]
NoErr == VErr("none", "", "")

NoArtifact ==
    [name |-> "", filename |-> "", sha256 |-> DigestOfStr(JStr("")), rows |-> 0,
     min_id |-> None, max_id |-> None, requests_made |-> 0,
     limit_per_request |-> 0, truncated |-> FALSE]

\* opt_int: an absent key and null both give None.
OptIntOf(meta, k) ==
    IF ~Has(meta, k) \/ meta[k].t = "null" THEN None ELSE Some(IntOf(meta[k]))

\* Mutant: minId is not compared with maxId.
ArtifactInvariantErrorNoOrder(a) ==
    IF a.rows < 0 THEN VErr("rows_negative", a.name, "rows")
    ELSE IF a.rows = 0 /\ (a.min_id # None \/ a.max_id # None)
         THEN VErr("empty_with_ids", a.name, "minId")
    ELSE IF a.rows # 0 /\ (a.min_id = None \/ a.max_id = None)
         THEN VErr("rows_without_ids", a.name, "minId")
    ELSE IF a.rows # 0 /\ a.requests_made < 1
         THEN VErr("no_requests_with_rows", a.name, "requestsMade")
    ELSE IF a.limit_per_request <= 0
         THEN VErr("limit_not_positive", a.name, "limitPerRequest")
    ELSE IF a.requests_made <= 0
         THEN VErr("requests_not_positive", a.name, "requestsMade")
    ELSE NoErr

\* Lines 82-102: the checks on the parsed fields, in their order.
ArtifactInvariantError(a) ==
    IF a.rows < 0 THEN VErr("rows_negative", a.name, "rows")
    ELSE IF a.rows = 0 /\ (a.min_id # None \/ a.max_id # None)
         THEN VErr("empty_with_ids", a.name, "minId")
    ELSE IF a.rows # 0 /\ (a.min_id = None \/ a.max_id = None)
         THEN VErr("rows_without_ids", a.name, "minId")
    ELSE IF a.rows # 0 /\ TheValue(a.min_id) > TheValue(a.max_id)
         THEN VErr("min_above_max", a.name, "minId")
    ELSE IF a.rows # 0 /\ a.requests_made < 1
         THEN VErr("no_requests_with_rows", a.name, "requestsMade")
    ELSE IF a.limit_per_request <= 0
         THEN VErr("limit_not_positive", a.name, "limitPerRequest")
    ELSE IF a.requests_made <= 0
         THEN VErr("requests_not_positive", a.name, "requestsMade")
    ELSE NoErr

\* Lines 73-80: the first field that is missing or mistyped, in reading order.
ArtifactFieldError(meta, name) ==
    LET Missing(k) == ~Has(meta, k)
        OptBad(k) == Has(meta, k) /\ meta[k].t # "null" /\ ~IsInt(meta[k])
    IN  IF Missing("filename") THEN VErr("missing", name, "filename")
        ELSE IF ~IsNonEmptyStr(meta["filename"]) THEN VErr("not_string", name, "filename")
        ELSE IF Missing("sha256") THEN VErr("missing", name, "sha256")
        ELSE IF ~IsNonEmptyStr(meta["sha256"]) THEN VErr("not_string", name, "sha256")
        ELSE IF Missing("rows") THEN VErr("missing", name, "rows")
        ELSE IF ~IsInt(meta["rows"]) THEN VErr("not_integer", name, "rows")
        ELSE IF OptBad("minId") THEN VErr("not_integer_or_null", name, "minId")
        ELSE IF OptBad("maxId") THEN VErr("not_integer_or_null", name, "maxId")
        ELSE IF Missing("requestsMade") THEN VErr("missing", name, "requestsMade")
        ELSE IF ~IsInt(meta["requestsMade"]) THEN VErr("not_integer", name, "requestsMade")
        ELSE IF Missing("limitPerRequest") THEN VErr("missing", name, "limitPerRequest")
        ELSE IF ~IsInt(meta["limitPerRequest"])
             THEN VErr("not_integer", name, "limitPerRequest")
        ELSE IF Missing("truncated") THEN VErr("missing", name, "truncated")
        ELSE IF meta["truncated"].t # "bool" THEN VErr("not_boolean", name, "truncated")
        ELSE NoErr

\* Lines 104-114.
ArtifactOf(meta, name) ==
    [name |-> name, filename |-> meta["filename"].s,
     sha256 |-> DigestOfStr(meta["sha256"]), rows |-> IntOf(meta["rows"]),
     min_id |-> OptIntOf(meta, "minId"), max_id |-> OptIntOf(meta, "maxId"),
     requests_made |-> IntOf(meta["requestsMade"]),
     limit_per_request |-> IntOf(meta["limitPerRequest"]),
     truncated |-> meta["truncated"].b]

\* _parse_artifact: the Artifact, or the ValueError it raises.
ParseArtifact(meta, name) ==
    LET fieldErr == ArtifactFieldError(meta, name)
    IN  IF fieldErr # NoErr THEN [err |-> fieldErr, art |-> NoArtifact]
        ELSE LET a == ArtifactOf(meta, name)
             IN [err |-> ArtifactInvariantError(a),
                 art |-> IF ArtifactInvariantError(a) = NoErr THEN a ELSE NoArtifact]

FileAt(dir, name) == IF name \in DOMAIN dir THEN dir[name] ELSE NoFile
Exists(dir, name) == FileAt(dir, name).kind # "absent"

\* Lines 119-128: the listing's lines folded into the dict `expected`, here
\* the sequence of its (filename, sha) items in insertion order; a line with
\* one token is the error.
RECURSIVE ExpectedOf(_, _)
ExpectedOf(lines, expected) ==
    IF lines = <<>> THEN [err |-> NoErr, items |-> expected]
    ELSE LET parts == Head(lines)
         IN IF Len(parts) = 0 THEN ExpectedOf(Tail(lines), expected)
            ELSE IF Len(parts) < 2
                 THEN [err |-> VErr("sums_invalid_line", "SHA256SUMS", ""), items |-> <<>>]
            ELSE LET item == [filename |-> parts[Len(parts)], sha |-> parts[1]]
                     seen == {k \in 1..Len(expected) : expected[k].filename = item.filename}
                 IN ExpectedOf(Tail(lines),
                               IF seen = {} THEN Append(expected, item)
                               ELSE [k \in 1..Len(expected) |->
                                        IF k \in seen THEN item ELSE expected[k]])

\* Lines 133-139.
RECURSIVE SumsItemsError(_, _)
SumsItemsError(dir, items) ==
    IF items = <<>> THEN NoErr
    ELSE LET it == Head(items)
         IN IF ~Exists(dir, it.filename)
            THEN VErr("sums_missing_file", it.filename, "")
            ELSE IF Sha256(FileAt(dir, it.filename)) # it.sha
                 THEN VErr("sums_mismatch", it.filename, "")
            ELSE SumsItemsError(dir, Tail(items))

\* _validate_sha256sums.
ValidateSha256sums(dir) ==
    LET parsed == ExpectedOf(dir["SHA256SUMS"].entries, <<>>)
    IN  IF parsed.err # NoErr THEN parsed.err
        ELSE IF parsed.items = <<>> THEN VErr("sums_empty", "SHA256SUMS", "")
        ELSE SumsItemsError(dir, parsed.items)

\* Is the name one that ends in ".gz"?
EndsWithGz(name) == name \in {FilenameOf("snapshots"), FilenameOf("changes"), "other.gz"}

\* Mutant: the artifact file only has to be there.
ArtifactFileErrorExistsOnly(dir, a) ==
    IF ~Exists(dir, a.filename) THEN VErr("missing_artifact_file", a.name, a.filename)
    ELSE IF EndsWithGz(a.filename) /\ FileAt(dir, a.filename).kind # "gz"
         THEN VErr("gzip_invalid", a.name, a.filename)
    ELSE NoErr

\* Lines 222-232 for one artifact.
ArtifactFileError(dir, a) ==
    IF ~Exists(dir, a.filename) THEN VErr("missing_artifact_file", a.name, a.filename)
    ELSE IF Sha256(FileAt(dir, a.filename)) # a.sha256
         THEN VErr("manifest_sha_mismatch", a.name, a.filename)
    ELSE IF EndsWithGz(a.filename) /\ FileAt(dir, a.filename).kind # "gz"
         THEN VErr("gzip_invalid", a.name, a.filename)
    ELSE NoErr

\* Lines 185-200: the manifest's own fields.
ManifestFieldError(m) ==
    LET StrError(k) ==
            IF ~Has(m, k) THEN VErr("missing", "manifest", k)
            ELSE IF ~IsNonEmptyStr(m[k]) THEN VErr("not_string", "manifest", k)
            ELSE NoErr
    IN  IF ~Has(m, "version") THEN VErr("missing", "manifest", "version")
        ELSE IF ~IsInt(m["version"]) \/ IntOf(m["version"]) <= 0
             THEN VErr("version", "manifest", "version")
        ELSE IF StrError("tag") # NoErr THEN StrError("tag")
        ELSE IF StrError("releasedAtUtc") # NoErr THEN StrError("releasedAtUtc")
        ELSE IF StrError("apiBase") # NoErr THEN StrError("apiBase")
        ELSE IF ~Has(m, "exportsManifest") THEN VErr("missing", "manifest", "exportsManifest")
        ELSE IF m["exportsManifest"].t # "obj"
             THEN VErr("not_object", "manifest", "exportsManifest")
        ELSE IF ~Has(m["exportsManifest"].o, "enabled")
             THEN VErr("enabled_missing", "manifest", "exportsManifest")
        ELSE NoErr

\* Lines 202-204: the three _require_dict calls.
ArtifactsDictError(m) ==
    IF ~Has(m, "artifacts") THEN VErr("missing", "manifest", "artifacts")
    ELSE IF m["artifacts"].t # "obj" THEN VErr("not_object", "manifest", "artifacts")
    ELSE LET arts == m["artifacts"].o
         IN IF ~Has(arts, "snapshots") THEN VErr("missing", "manifest", "snapshots")
            ELSE IF arts["snapshots"].t # "obj" THEN VErr("not_object", "manifest", "snapshots")
            ELSE IF ~Has(arts, "changes") THEN VErr("missing", "manifest", "changes")
            ELSE IF arts["changes"].t # "obj" THEN VErr("not_object", "manifest", "changes")
            ELSE NoErr

\* Mutant: a truncated bundle is turned away only when both artifacts are.
TruncatedRejectedIfBoth(allow_truncated, snap, ch) ==
    ~allow_truncated /\ (snap.truncated /\ ch.truncated)

\* Line 209.
TruncatedRejected(allow_truncated, snap, ch) ==
    ~allow_truncated /\ (snap.truncated \/ ch.truncated)

\* Line 216.
EmptyRejected(allow_empty, snap, ch) ==
    ~allow_empty /\ (snap.rows = 0 \/ ch.rows = 0)

\* Mutant: the empty-bundle policy is applied before the truncated one.
ArtifactsErrorEmptyFirst(dir, m, allow_empty, allow_truncated) ==
    LET snap == ParseArtifact(m["artifacts"].o["snapshots"].o, "snapshots")
        ch == ParseArtifact(m["artifacts"].o["changes"].o, "changes")
    IN  IF snap.err # NoErr THEN snap.err
        ELSE IF ch.err # NoErr THEN ch.err
        ELSE IF EmptyRejected(allow_empty, snap.art, ch.art)
             THEN VErr("empty", "manifest", "rows")
        ELSE IF TruncatedRejected(allow_truncated, snap.art, ch.art)
             THEN VErr("truncated", "manifest", "truncated")
        ELSE IF ArtifactFileError(dir, snap.art) # NoErr THEN ArtifactFileError(dir, snap.art)
        ELSE IF ArtifactFileError(dir, ch.art) # NoErr THEN ArtifactFileError(dir, ch.art)
        ELSE ValidateSha256sums(dir)

\* Lines 206-235 once both artifact objects are at hand.
ArtifactsError(dir, m, allow_empty, allow_truncated) ==
    LET snap == ParseArtifact(m["artifacts"].o["snapshots"].o, "snapshots")
        ch == ParseArtifact(m["artifacts"].o["changes"].o, "changes")
    IN  IF snap.err # NoErr THEN snap.err
        ELSE IF ch.err # NoErr THEN ch.err
        ELSE IF TruncatedRejected(allow_truncated, snap.art, ch.art)
             THEN VErr("truncated", "manifest", "truncated")
        ELSE IF EmptyRejected(allow_empty, snap.art, ch.art)
             THEN VErr("empty", "manifest", "rows")
        ELSE IF ArtifactFileError(dir, snap.art) # NoErr THEN ArtifactFileError(dir, snap.art)
        ELSE IF ArtifactFileError(dir, ch.art) # NoErr THEN ArtifactFileError(dir, ch.art)
        ELSE ValidateSha256sums(dir)

\* validate_release_bundle.main: the first check that fails, NoErr when
\* the bundle is accepted.
ValidateError(dir, allow_empty, allow_truncated) ==
    IF ~Exists(dir, "manifest.json") THEN VErr("missing_file", "manifest.json", "")
    ELSE IF ~Exists(dir, "SHA256SUMS") THEN VErr("missing_file", "SHA256SUMS", "")
    ELSE IF dir["manifest.json"].kind # "json" THEN VErr("json_decode", "manifest.json", "")
    ELSE IF dir["manifest.json"].doc.t # "obj"
         THEN VErr("manifest_not_object", "manifest.json", "")
    ELSE LET m == dir["manifest.json"].doc.o
         IN IF ManifestFieldError(m) # NoErr THEN ManifestFieldError(m)
            ELSE IF ArtifactsDictError(m) # NoErr THEN ArtifactsDictError(m)
            ELSE ArtifactsError(dir, m, allow_empty, allow_truncated)

\* Lines 246-249: the WARNING line of an accepted bundle.
WarnsTruncated(dir) ==
    LET arts == dir["manifest.json"].doc.o["artifacts"].o
    IN arts["snapshots"].o["truncated"].b \/ arts["changes"].o["truncated"].b

\* One run of validate_release_bundle.main on the directory, with the
\* overrides the caller gives.
Validate ==
    /\ pc = "done"
    /\ \E allow_empty \in BOOLEAN, allow_truncated \in BOOLEAN :
          LET err == ValidateError(files, allow_empty, allow_truncated)
          IN vres' = Some([allow_empty |-> allow_empty,
                           allow_truncated |-> allow_truncated,
                           ok |-> err = NoErr,
                           err |-> err,
                           warning |-> err = NoErr /\ WarnsTruncated(files)])
    /\ pc' = "validated"
    /\ UNCHANGED <<stream, limit, ex, http, resp, gz, files, leaked, result,
                   error, served, reqLog, script, free, args, exports_manifest,
                   metas, shas, mtime_kw>>

\* ------------------------------------------------- one exporter run alone

\* What no specification below changes before it runs.
Blank0 ==
    /\ ex = ExInit
    /\ http = NoHttp
    /\ resp = NoResp
    /\ gz = "unopened"
    /\ leaked = FALSE
    /\ result = None
    /\ error = None
    /\ served = <<>>
    /\ reqLog = <<>>
    /\ exports_manifest = None
    /\ metas = [s \in Streams |-> None]
    /\ shas = [s \in Streams |-> None]
    /\ vres = None

\* A call of _download_export_to_gzip_jsonl for either stream, with the
\* default --limit, against a server that may answer with any page.
Init ==
    /\ Blank0
    /\ pc = "open"
    /\ stream \in Streams
    /\ limit = DefaultLimit
    /\ args = [limit |-> DefaultLimit, tag |-> "healtharchive-dataset-2026-01-01"]
    /\ files = [f \in FileNames |-> NoFile]
    /\ script = [s \in Streams |-> <<>>]
    /\ free = TRUE
    /\ mtime_kw \in BOOLEAN

Next == Exporter

Spec == Init /\ [][Next]_vars

\* The program is one sequential process: a step that can be taken is taken.
FairSpec == Spec /\ WF_vars(Next)

\* --------------------------------------------------------- one build

\* Snapshots: pages of 3 and 0 rows (ids 101, 102, 103).  Changes: one page
\* of 2 rows (ids 55, 56) and then no page at all, or then an empty page.
ScenarioSnapshots == << <<Row(101, TRUE), Row(102, TRUE), Row(103, TRUE)>>, <<>> >>
ScenarioChangesPage == <<Row(55, TRUE), Row(56, TRUE)>>
ScenarioOnePage ==
    [snapshots |-> ScenarioSnapshots, changes |-> <<ScenarioChangesPage>>]
ScenarioWithEmptyPage ==
    [snapshots |-> ScenarioSnapshots, changes |-> <<ScenarioChangesPage, <<>> >>]

\* The pages a scripted server holds for the two streams.
BuildScripts ==
    { ScenarioOnePage,
      ScenarioWithEmptyPage,
      [snapshots |-> << <<>> >>,
       changes |-> << <<Row(1, TRUE)>>, <<Row(2, FALSE)>>, <<Blank(TRUE)>> >>],
      [snapshots |-> << <<Row(2, TRUE), Row(1, TRUE)>>, <<>> >>,
       changes |-> << <<Row(1, TRUE)>>, <<Row(1, TRUE)>> >>],
      [snapshots |-> << <<Row(1, TRUE)>>, <<>> >>,
       changes |-> << <<RowNoId(TRUE)>> >>],
      [snapshots |-> << <<Row(1, TRUE), Bad(TRUE)>> >>,
       changes |-> << <<>> >>] }

\* build_release.main against a scripted server.
InitBuild ==
    /\ Blank0
    /\ pc = "main"
    /\ stream = "snapshots"
    /\ limit = 0
    /\ args \in [limit : 1..MaxArgLimit, tag : {"healtharchive-dataset-2026-01-01"}]
    /\ files = [f \in FileNames |-> NoFile]
    /\ script \in BuildScripts
    /\ free = FALSE
    /\ mtime_kw \in BOOLEAN

NextBuild == Exporter \/ Builder \/ Validate

SpecBuild == InitBuild /\ [][NextBuild]_vars

\* --------------------------------------------- one validation of a bundle

\* A bundle directory is assembled from four choices: how each artifact's
\* manifest entry looks, what happened to the files, how the manifest's own
\* fields look, and how SHA256SUMS looks.
SnapshotEntries ==
    {"ok", "truncated", "empty", "empty_truncated", "no_truncated_field",
     "truncated_not_bool", "rows5_min_null", "min_above_max", "empty_with_ids",
     "rows_negative", "limit_zero", "requests_zero", "rows_requests_zero"}
ChangesEntries ==
    {"ok", "truncated", "empty", "no_truncated_field", "rows5_min_null", "limit_zero"}
FileStates ==
    {"intact", "snapshots_altered", "changes_altered", "snapshots_missing",
     "changes_missing", "snapshots_not_gzip"}
ManifestShapes ==
    {"ok", "absent", "not_json", "not_object", "no_version", "version_zero",
     "tag_blank", "no_enabled", "no_changes"}
SumsShapes ==
    {"ok", "absent", "empty", "one_token", "extra_token", "references_missing",
     "manifest_digest_wrong", "artifacts_only", "manifest_only",
     "manifest_twice"}

\* The rows of an artifact file as the manifest entry describes it.
EntryBody(entry) ==
    IF entry \in {"empty", "empty_truncated", "empty_with_ids", "requests_zero"}
    THEN <<>>
    ELSE <<Row(1, TRUE), Row(2, TRUE)>>

\* The artifact file on disk.
DiskFile(s, entry, fileState) ==
    IF fileState = s \o "_missing" THEN NoFile
    ELSE IF fileState = s \o "_altered" THEN GzFile(Append(EntryBody(entry), Row(3, TRUE)))
    ELSE IF fileState = s \o "_not_gzip" THEN GarbageFile
    ELSE GzFile(EntryBody(entry))

\* The file whose digest the manifest records: the one on disk, unless the
\* file went missing or was altered after the build.
RecordedFile(s, entry, fileState) ==
    IF fileState = s \o "_not_gzip" THEN GarbageFile
    ELSE GzFile(EntryBody(entry))

\* An artifact's manifest entry.
EntryJson(s, entry, fileState) ==
    LET rows == CASE entry \in {"empty", "empty_truncated", "empty_with_ids",
                                "requests_zero"} -> 0
                  [] entry = "rows5_min_null" -> 5
                  [] entry = "rows_negative" -> 0 - 1
                  [] OTHER -> 2
        minId == CASE entry \in {"empty", "empty_truncated", "requests_zero",
                                 "rows5_min_null"} -> JNull
                   [] entry = "min_above_max" -> JInt(3)
                   [] OTHER -> JInt(1)
        maxId == CASE entry \in {"empty", "empty_truncated", "requests_zero"} -> JNull
                   [] OTHER -> JInt(2)
        requests == CASE entry \in {"requests_zero", "rows_requests_zero"} -> 0
                      [] entry \in {"empty", "empty_truncated", "empty_with_ids"} -> 1
                      [] OTHER -> 2
        full == [filename |-> JStr(FilenameOf(s)),
                 sha256 |-> JDigest(Sha256(RecordedFile(s, entry, fileState))),
                 rows |-> JInt(rows), minId |-> minId, maxId |-> maxId,
                 requestsMade |-> JInt(requests),
                 limitPerRequest |-> JInt(IF entry = "limit_zero" THEN 0 ELSE 1),
                 truncated |-> IF entry = "truncated_not_bool" THEN JInt(1)
                               ELSE JBool(entry \in {"truncated", "empty_truncated"})]
    IN  IF entry = "no_truncated_field"
        THEN [k \in DOMAIN full \ {"truncated"} |-> full[k]]
        ELSE full

\* manifest.json.
ManifestFile(shape, snapEntry, chEntry, fileState) ==
    LET snap == JObj(EntryJson("snapshots", snapEntry, fileState))
        ch == JObj(EntryJson("changes", chEntry, fileState))
        full == [version |-> JInt(IF shape = "version_zero" THEN 0 ELSE 1),
                 tag |-> JStr(IF shape = "tag_blank" THEN " "
                              ELSE "healtharchive-dataset-2026-01-01"),
                 releasedAtUtc |-> JStr("2026-01-01T00:00:00+00:00"),
                 apiBase |-> JStr("https://api.healtharchive.ca"),
                 exportsManifest |->
                     JObj(IF shape = "no_enabled" THEN [maxLimit |-> JInt(1)]
                          ELSE [enabled |-> JBool(TRUE)]),
                 artifacts |->
                     JObj(IF shape = "no_changes" THEN [snapshots |-> snap]
                          ELSE [snapshots |-> snap, changes |-> ch])]
    IN  CASE shape = "absent" -> NoFile
          [] shape = "not_json" -> TextFile(<<>>)
          [] shape = "not_object" -> JsonFile(JInt(1))
          [] shape = "no_version" ->
                JsonFile(JObj([k \in DOMAIN full \ {"version"} |-> full[k]]))
          [] OTHER -> JsonFile(JObj(full))

\* SHA256SUMS, given the files it lists.
SumsFile(shape, dir) ==
    LET line(name) == <<Sha256(dir[name]), name>>
        snap == line(FilenameOf("snapshots"))
        ch == line(FilenameOf("changes"))
        man == line("manifest.json")
    IN  CASE shape = "absent" -> NoFile
          [] shape = "empty" -> TextFile(<< <<>> >>)
          [] shape = "one_token" -> TextFile(<<snap, ch, <<"manifest.json">> >>)
          [] shape = "extra_token" ->
                TextFile(<<snap, ch, <<man[1], "*", "manifest.json">>, <<>> >>)
          [] shape = "references_missing" ->
                TextFile(<<snap, ch, man, <<man[1], "gone.txt">> >>)
          [] shape = "manifest_digest_wrong" ->
                TextFile(<<snap, ch, <<Sha256(TextFile(<<>>)), "manifest.json">> >>)
          [] shape = "manifest_twice" ->
                TextFile(<<snap, ch, <<Sha256(TextFile(<<>>)), "manifest.json">>, man>>)
          [] shape = "artifacts_only" -> TextFile(<<snap, ch>>)
          [] shape = "manifest_only" -> TextFile(<<man>>)
          [] OTHER -> TextFile(<<snap, ch, man>>)

BundleDir(snapEntry, chEntry, fileState, manifestShape, sumsShape) ==
    LET disk == [f \in FileNames |->
                    CASE f = FilenameOf("snapshots") -> DiskFile("snapshots", snapEntry, fileState)
                      [] f = FilenameOf("changes") -> DiskFile("changes", chEntry, fileState)
                      [] f = "manifest.json" ->
                            ManifestFile(manifestShape, snapEntry, chEntry, fileState)
                      [] OTHER -> NoFile]
    IN  [disk EXCEPT !["SHA256SUMS"] = SumsFile(sumsShape, disk)]

\* validate_release_bundle.main is about to run on some bundle directory.
InitValidate ==
    /\ Blank0
    /\ pc = "done"
    /\ stream = "snapshots"
    /\ limit = DefaultLimit
    /\ args = [limit |-> DefaultLimit, tag |-> "healtharchive-dataset-2026-01-01"]
    /\ script = [s \in Streams |-> <<>>]
    /\ free = FALSE
    /\ mtime_kw = TRUE
    /\ \E snapEntry \in SnapshotEntries, chEntry \in ChangesEntries,
          fileState \in FileStates, manifestShape \in ManifestShapes,
          sumsShape \in SumsShapes :
          files = BundleDir(snapEntry, chEntry, fileState, manifestShape, sumsShape)

NextValidate == Validate

SpecValidate == InitValidate /\ [][NextValidate]_vars

\* ------------------------------------------------------------ properties

NonBlank(page) == SelectSeq(page, LAMBDA l : l.kind # "blank")

\* The id the last row of a page carries, None for a page without rows.
LastRowId(page) ==
    LET nb == NonBlank(page) IN IF nb = <<>> THEN None ELSE nb[Len(nb)].id

\* Page k of the running export is as C1 supposes: without rows, or of
\* well-formed rows the last of which carries an integer id above the cursor
\* the page was asked with.
PageAsSupposed(k) ==
    LET nb == NonBlank(served[k])
        cursor == IF k = 1 THEN None ELSE LastRowId(served[k - 1])
    IN  \/ nb = <<>>
        \/ /\ \A i \in 1..Len(nb) : nb[i].kind = "row"
           /\ LastRowId(served[k]) # None
           /\ cursor # None => TheValue(LastRowId(served[k])) > TheValue(cursor)

ServedAsSupposed == \A k \in 1..Len(served) : PageAsSupposed(k)

\* No request ran out of attempts and no body broke off while it was read.
EveryPageServed == error = None \/ TheValue(error).kind \notin {"fetch", "read"}

ExportReturnedWith(n) ==
    /\ pc = "returned"
    /\ result # None
    /\ TheValue(result).requestsMade = n

\* gzip.open did not reject the call: the export got as far as its requests.
SinkOpened == error = None \/ TheValue(error).kind # "sink"

\* The exporter has returned or raised.
ExportEnded == pc \in {"returned", "failed"}

\* C1: every run ends; and when the sink was opened, every page was served,
\* every page with rows ended with an integer id above the previous cursor
\* and the server ended with a page without rows, the run ends by returning
\* a result whose requestsMade is the number of pages fetched, the trailing
\* empty page included.
C1_PaginationTerminates ==
    <>(/\ ExportEnded
       /\ (SinkOpened /\ ServedAsSupposed /\ EveryPageServed)
             => ExportReturnedWith(Len(served)))

\* Three pages with rows and the empty page after them were fetched.
C1_Witness ==
    /\ ExportReturnedWith(4)
    /\ ServedAsSupposed
    /\ \A k \in 1..3 : NonBlank(served[k]) # <<>>

\* The afterId values of the page requests built so far: none in the first,
\* then strictly increasing.
CursorsIncrease ==
    /\ \A k \in 1..Len(reqLog) : (reqLog[k].afterId = None) <=> (k = 1)
    /\ \A j \in 2..Len(reqLog) : \A k \in (j + 1)..Len(reqLog) :
          TheValue(reqLog[j].afterId) < TheValue(reqLog[k].afterId)

\* The page being read is exhausted and its last id is not above its cursor
\* (the page completes in the step that counts it in requests_made).
PageDidNotAdvance ==
    /\ pc = "read"
    /\ resp.pos = Len(resp.body)
    /\ ex.last_id # None
    /\ ex.after_id # None
    /\ TheValue(ex.last_id) <= TheValue(ex.after_id)

\* C2: the afterId values sent in successive page requests are strictly
\* increasing, and a page that completes with lastId <= afterId makes the
\* exporter fail with the pagination error, no further request being built.
C2_CursorMonotone ==
    /\ []CursorsIncrease
    /\ [][(PageDidNotAdvance /\ ex'.requests_made = ex.requests_made + 1) =>
            /\ pc' = "failed"
            /\ error' = Raised("no_advance", NoUrl, "protocol")
            /\ reqLog' = reqLog]_vars

\* A run was stopped by the pagination error after its second page.
C2_Witness ==
    /\ pc = "failed"
    /\ TheValue(error).kind = "no_advance"
    /\ Len(reqLog) = 2

RECURSIVE Flatten(_)
Flatten(pages) == IF pages = <<>> THEN <<>> ELSE pages[1] \o Flatten(Tail(pages))

\* The integer ids of the rows served, in order.
ServedIds == LET rs == NonBlank(Flatten(served)) IN [k \in 1..Len(rs) |-> TheValue(rs[k].id)]
AllRowsHaveIds == \A l \in {Flatten(served)[k] : k \in 1..Len(Flatten(served))} :
                     l.kind = "blank" \/ (l.kind = "row" /\ l.id # None)

SeqMin(q) == CHOOSE m \in {q[k] : k \in 1..Len(q)} : \A k \in 1..Len(q) : m <= q[k]
SeqMax(q) == CHOOSE m \in {q[k] : k \in 1..Len(q)} : \A k \in 1..Len(q) : m >= q[k]

\* C3: a run over rows that all carry integer ids returns rows = n,
\* minId = the least and maxId = the greatest of the ids, however the rows
\* are split into pages.
C3_RowIdAccounting ==
    (pc = "returned" /\ AllRowsHaveIds /\ ServedIds # <<>>) =>
        /\ TheValue(result).rows = Len(ServedIds)
        /\ TheValue(result).minId = Some(SeqMin(ServedIds))
        /\ TheValue(result).maxId = Some(SeqMax(ServedIds))

\* C4: at every point of a run, and in the result, minId <= maxId whenever
\* both are set.
C4_MinBelowMax ==
    /\ (ex.min_id # None /\ ex.max_id # None) => TheValue(ex.min_id) <= TheValue(ex.max_id)
    /\ (result # None /\ TheValue(result).minId # None /\ TheValue(result).maxId # None)
          => TheValue(TheValue(result).minId) <= TheValue(TheValue(result).maxId)

\* C5: a returned result has minId and maxId both null exactly when rows = 0,
\* and neither null when it has rows.
C5_NullIdsIffNoRows ==
    result # None =>
        LET r == TheValue(result)
        IN  /\ (r.minId = None /\ r.maxId = None) <=> (r.rows = 0)
            /\ r.rows > 0 => (r.minId # None /\ r.maxId # None)

\* A result with rows, some of them without an id, and one without rows.
C5_Witness ==
    /\ result # None
    /\ TheValue(result).rows = 2
    /\ \E k \in 1..Len(served[1]) : served[1][k] = RowNoId(TRUE)

\* manifest.json holds a manifest, and the entry it has for a stream.
ManifestWritten == files["manifest.json"].kind = "json"
ManifestArtifact(s) == files["manifest.json"].doc.o["artifacts"].o[s].o

\* C6: a build that got rows in both streams writes a bundle the validator,
\* run without overrides, accepts.
C6_BuildThenValidate ==
    (/\ vres # None
     /\ ~TheValue(vres).allow_empty
     /\ ~TheValue(vres).allow_truncated
     /\ \A s \in Streams : metas[s] # None /\ TheValue(metas[s]).rows >= 1)
        => TheValue(vres).ok

\* C7: every manifest the builder writes has, for both artifacts, a boolean
\* truncated field, and it is false.
C7_TruncatedEmbedded ==
    ManifestWritten =>
        \A s \in Streams :
            /\ Has(ManifestArtifact(s), "truncated")
            /\ ManifestArtifact(s)["truncated"] = JBool(FALSE)

ManifestShows(s, rows, minId, maxId, requestsMade) ==
    LET a == ManifestArtifact(s)
    IN  /\ a["rows"] = JInt(rows)
        /\ a["minId"] = JInt(minId)
        /\ a["maxId"] = JInt(maxId)
        /\ a["requestsMade"] = JInt(requestsMade)

OneAndAHalfToThe(k) == [num |-> 3 ^ k, den |-> 2 ^ k]

\* The backoffs of a retry loop so far: 1.5^0, 1.5^1, ... one per failed
\* attempt that another attempt followed.
BackoffsInOrder(h) ==
    \A k \in 1..Len(h.sleeps) : h.sleeps[k] = OneAndAHalfToThe(k - 1)

\* C9: in _http_json and _http_ndjson_stream, with retry count R, an attempt
\* is only made after fewer than R+1 attempts, each of which failed and was
\* followed by its backoff 1.5^attempt; a call that fails has made R+1
\* attempts and R backoffs (none after the last), and its error carries the
\* URL and the last underlying error; a backoff is only ever added by a
\* failed attempt that leaves the call running.
C9_BoundedRetry ==
    /\ [](pc \in {"fetch", "fetch_json"} =>
            /\ http.retries = (IF pc = "fetch" THEN StreamRetries ELSE JsonRetries)
            /\ http.attempts <= http.retries
            /\ http.attempt = http.attempts
            /\ Len(http.sleeps) = http.attempts
            /\ BackoffsInOrder(http))
    /\ []((pc = "failed" /\ TheValue(error).kind = "fetch") =>
            /\ http.attempts = http.retries + 1
            /\ Len(http.sleeps) = http.retries
            /\ BackoffsInOrder(http)
            /\ http.last_exc # "none"
            /\ error = Raised("fetch", http.url, http.last_exc))
    /\ [][Len(http'.sleeps) > Len(http.sleeps) =>
            /\ pc \in {"fetch", "fetch_json"}
            /\ pc' = pc
            /\ http'.attempts = http.attempts + 1
            /\ http'.last_exc # "none"]_vars

\* A page request of the changes export gave up after five attempts.
C9_Witness ==
    /\ pc = "failed"
    /\ TheValue(error).kind = "fetch"
    /\ http.fn = "_http_ndjson_stream"
    /\ stream = "changes"
    /\ http.attempts = 5

\* The directory is a bundle with nothing wrong but, possibly, truncated or
\* empty artifacts.
SoundButForPolicy ==
    \E snapEntry \in {"ok", "truncated", "empty", "empty_truncated"},
       chEntry \in {"ok", "truncated", "empty"} :
        files = BundleDir(snapEntry, chEntry, "intact", "ok", "ok")

DeclaredTruncated == \E s \in Streams : ManifestArtifact(s)["truncated"].b
DeclaredEmpty == \E s \in Streams : ManifestArtifact(s)["rows"].n = 0

\* C10: the validator accepts only if (allow-truncated or no artifact is
\* truncated) and (allow-empty or no artifact has rows = 0); a bundle with
\* nothing else wrong is accepted exactly under that condition; and an
\* accepted bundle gets the warning line exactly when it is truncated.
C10_TruncatedEmptyPolicy ==
    vres # None =>
        LET v == TheValue(vres)
            allowed == /\ v.allow_truncated \/ ~DeclaredTruncated
                       /\ v.allow_empty \/ ~DeclaredEmpty
        IN  /\ v.ok => allowed
            /\ v.ok => (v.warning <=> DeclaredTruncated)
            /\ SoundButForPolicy => (v.ok <=> allowed)

\* A truncated and empty bundle was accepted, with the warning.
C10_Witness ==
    /\ vres # None
    /\ TheValue(vres).ok
    /\ TheValue(vres).warning
    /\ DeclaredEmpty

\* The validator has run and accepted the bundle.
Accepted == vres # None /\ TheValue(vres).ok

\* The lines of SHA256SUMS that are not blank, the filenames they name (the
\* last token) and the digest of the last line that names a filename (the
\* first token).
ListedLines ==
    LET e == files["SHA256SUMS"].entries
    IN {e[k] : k \in {j \in 1..Len(e) : Len(e[j]) > 0}}
ListedNames == {l[Len(l)] : l \in ListedLines}
LastListed(name) ==
    LET e == files["SHA256SUMS"].entries
        at == {k \in 1..Len(e) : Len(e[k]) > 0 /\ e[k][Len(e[k])] = name}
        last == CHOOSE k \in at : \A j \in at : j <= k
    IN e[last][1]

\* C11: the validator accepts only if both artifact files the manifest
\* declares exist with the digest the manifest declares, SHA256SUMS is not
\* empty, and every filename it names exists with the digest listed for it
\* (the last one listed, when a filename is named twice); so a bundle whose
\* artifact bytes were altered after the build is rejected.
C11_Integrity ==
    Accepted =>
        /\ \A s \in Streams :
              LET a == ManifestArtifact(s)
              IN  /\ Exists(files, a["filename"].s)
                  /\ Sha256(FileAt(files, a["filename"].s)) = a["sha256"].digest
        /\ ListedNames # {}
        /\ \A name \in ListedNames :
              /\ Exists(files, name)
              /\ Sha256(FileAt(files, name)) = LastListed(name)

\* A bundle with nothing wrong but the bytes of the changes file, altered
\* after the build, was turned away for the digest.
C11_Witness ==
    /\ vres # None
    /\ files = BundleDir("ok", "ok", "changes_altered", "ok", "ok")
    /\ TheValue(vres).err = VErr("manifest_sha_mismatch", "changes", FilenameOf("changes"))

\* C12: an accepted bundle names, in SHA256SUMS, both artifact files and
\* manifest.json.
C12_EveryFileListed ==
    Accepted =>
        /\ "manifest.json" \in ListedNames
        /\ \A s \in Streams : ManifestArtifact(s)["filename"].s \in ListedNames

\* The artifact invariants, read off the manifest entry of a stream.
ArtifactInvariants(s) ==
    LET a == ManifestArtifact(s)
        rows == a["rows"].n
        hasMin == a["minId"].t = "int"
        hasMax == a["maxId"].t = "int"
    IN  /\ a["rows"].t = "int" /\ rows >= 0
        /\ rows = 0 => (~hasMin /\ ~hasMax)
        /\ rows > 0 => /\ hasMin /\ hasMax
                       /\ a["minId"].n <= a["maxId"].n
                       /\ a["requestsMade"].n >= 1
        /\ a["limitPerRequest"].n > 0
        /\ a["requestsMade"].n > 0

\* manifest.json has an artifact entry with rows = 5 and minId = null.
FiveRowsNoMinId ==
    /\ ManifestWritten
    /\ files["manifest.json"].doc.t = "obj"
    /\ Has(files["manifest.json"].doc.o, "artifacts")
    /\ \E s \in Streams :
          LET arts == files["manifest.json"].doc.o["artifacts"].o
          IN  /\ Has(arts, s)
              /\ arts[s].o["rows"] = JInt(5)
              /\ arts[s].o["minId"] = JNull

\* C13: both artifacts of an accepted bundle satisfy the artifact
\* invariants, and a manifest with rows = 5 and minId = null is rejected.
C13_ArtifactInvariants ==
    /\ Accepted => \A s \in Streams : ArtifactInvariants(s)
    /\ (vres # None /\ FiveRowsNoMinId) => ~TheValue(vres).ok

\* A bundle with an empty snapshots artifact (rows 0, null ids) and a changes
\* artifact with rows was accepted.
C13_Witness ==
    /\ Accepted
    /\ ManifestArtifact("snapshots")["rows"] = JInt(0)
    /\ ManifestArtifact("changes")["rows"] = JInt(2)

\* manifest.json / SHA256SUMS is in the output directory.
ManifestOnDisk == files["manifest.json"] # NoFile
SumsOnDisk == files["SHA256SUMS"] # NoFile

\* C14: a build that ended in an error has written neither manifest.json nor
\* SHA256SUMS; either is only there once both exports have returned and both
\* artifact files were hashed, and SHA256SUMS only after manifest.json.
C14_NoPartialManifest ==
    /\ pc = "failed" => (~ManifestOnDisk /\ ~SumsOnDisk)
    /\ (ManifestOnDisk \/ SumsOnDisk) =>
          /\ error = None
          /\ \A s \in Streams : metas[s] # None /\ shas[s] # None
          /\ gz = "closed"
    /\ SumsOnDisk => ManifestOnDisk

\* The changes export was stopped by a protocol error after the snapshots
\* export had returned.
C14_Witness ==
    /\ pc = "failed"
    /\ stream = "changes"
    /\ TheValue(error).kind = "no_advance"
    /\ metas["snapshots"] # None
    /\ files[FilenameOf("snapshots")] # NoFile

\* The capability document main fetched says enabled = false.
DisabledByServer ==
    exports_manifest # None /\ TheValue(exports_manifest).enabled = Some(FALSE)

\* C15: with enabled = false in the capability document the build fails
\* with the "exports are disabled" error, no export page request having been
\* built, no sink opened and no file written.
C15_DisabledCapability ==
    DisabledByServer =>
        /\ pc \in {"negotiate", "failed"}
        /\ pc = "failed" => error = Raised("disabled", NoUrl, "none")
        /\ reqLog = <<>>
        /\ served = <<>>
        /\ gz = "unopened"
        /\ \A f \in FileNames : files[f] = NoFile

C15_Witness == DisabledByServer /\ pc = "failed"

\* The pages of a source that one export reads: up to and including the
\* first page without rows.
RECURSIVE UpToEmpty(_)
UpToEmpty(pages) ==
    IF pages = <<>> THEN <<>>
    ELSE IF NonBlank(pages[1]) = <<>> THEN <<pages[1]>>
    ELSE <<pages[1]>> \o UpToEmpty(Tail(pages))

\* What a page sequence determines: the lines of the sink, each ending with
\* a newline, and the dict returned.
SinkOf(pages) ==
    LET ls == NonBlank(Flatten(pages))
    IN [k \in 1..Len(ls) |-> [ls[k] EXCEPT !.nl = TRUE]]
IdsOf(pages) ==
    LET withId == SelectSeq(NonBlank(Flatten(pages)), LAMBDA l : l.id # None)
    IN [k \in 1..Len(withId) |-> withId[k].id]
MetaOf(s, pages, lim) ==
    LET ids == IdsOf(pages)
    IN [path |-> PathOf(s), idField |-> IdFieldOf(s),
        rows |-> Len(NonBlank(Flatten(pages))),
        minId |-> IF ids = <<>> THEN None ELSE ids[1],
        maxId |-> IF ids = <<>> THEN None ELSE ids[Len(ids)],
        limitPerRequest |-> lim, requestsMade |-> Len(pages),
        filename |-> FilenameOf(s)]
BytesOf(pages) == [kind |-> "gz", rows |-> SinkOf(pages), doc |-> JNull, entries |-> <<>>]

\* The manifest the source, the arguments and the capability document
\* determine, but for releasedAtUtc.
ManifestOf(now) ==
    LET doc == TheValue(exports_manifest)
        lim == EffectiveLimit(doc, args.limit)
        snap == UpToEmpty(script["snapshots"])
        ch == UpToEmpty(script["changes"])
    IN JsonFile(JObj(ManifestJson(args.tag, now, doc,
                                  MetaOf("snapshots", snap, lim), Sha256(BytesOf(snap)),
                                  MetaOf("changes", ch, lim), Sha256(BytesOf(ch)))))

\* C16: whatever attempts failed on the way, an export that returns has
\* written the sink and returns the dict that the pages it was served
\* determine, and a build writes the manifest that its source determines,
\* releasedAtUtc apart: runs over the same pages cannot differ in them.
C16_Deterministic ==
    /\ pc = "returned" =>
          /\ served = UpToEmpty(script[stream])
          /\ result = Some(MetaOf(stream, served, limit))
          /\ files[FilenameOf(stream)] = BytesOf(served)
    /\ ManifestWritten => \E now \in Clock : files["manifest.json"] = ManifestOf(now)

\* A build wrote its manifest after an attempt for a page had failed.
C16_Witness == ManifestWritten /\ leaked

\* The next line of the page is a row whose integer id is below the last
\* id seen in this export, and this step reads it.
LowerIdRead ==
    /\ pc = "read"
    /\ resp.pos < Len(resp.body)
    /\ resp'.pos = resp.pos + 1
    /\ resp.body[resp.pos + 1].kind = "row"
    /\ resp.body[resp.pos + 1].id # None
    /\ ex.max_id # None
    /\ TheValue(resp.body[resp.pos + 1].id) < TheValue(ex.max_id)

\* C17: within one export maxId never decreases, minId never changes once
\* set, and reading a row whose integer id is below an id already seen makes
\* the run fail.
C17_MinMaxMonotone ==
    [][/\ (pc # "open" /\ ex.max_id # None) =>
             (ex'.max_id # None /\ TheValue(ex'.max_id) >= TheValue(ex.max_id))
       /\ (pc # "open" /\ ex.min_id # None) => ex'.min_id = ex.min_id
       /\ LowerIdRead => pc' = "failed"]_vars

\* The page being read is exhausted and breaks the protocol: it had rows but
\* none with an integer id, or its last id is not above its cursor.
PageBreaksProtocol ==
    /\ pc = "read"
    /\ resp.pos = Len(resp.body)
    /\ ex.page_rows > 0
    /\ \/ ex.last_id = None
       \/ ex.after_id # None /\ TheValue(ex.last_id) <= TheValue(ex.after_id)

\* The run was ended by a protocol error.
ProtocolFailure == pc = "failed" /\ TheValue(error).kind \in {"no_id", "no_advance"}

\* C18: the step that completes a page breaking the protocol ends the run
\* with the protocol error, without a result and without another request;
\* a run ended that way has no result, no request under way and as many
\* requests built as pages served, and nothing follows.
C18_ProtocolErrorsFatal ==
    /\ [][(PageBreaksProtocol /\ ex'.requests_made = ex.requests_made + 1) =>
            /\ pc' = "failed"
            /\ error' = Raised(IF ex.last_id = None THEN "no_id" ELSE "no_advance",
                               NoUrl, "protocol")
            /\ result' = None
            /\ reqLog' = reqLog
            /\ http' = http]_vars
    /\ [](ProtocolFailure =>
            /\ result = None
            /\ http = NoHttp
            /\ Len(reqLog) = Len(served)
            /\ gz = "closed")
    /\ [][ProtocolFailure => UNCHANGED vars]_vars

\* A run was stopped for rows without an id on its second page, the first
\* page having been in order.
C18_Witness ==
    /\ ProtocolFailure
    /\ TheValue(error).kind = "no_id"
    /\ Len(served) = 2
    /\ ex.rows > ex.page_rows

\* C19: no response stream is ever dropped without close(); the response of
\* a page is open only while the page is read, so it is closed before the
\* next request is built and when the exporter returns or fails.
C19_StreamsClosed ==
    /\ ~leaked
    /\ resp.state = "open" => pc = "read"

\* A step writes an artifact file only through the open sink of the running
\* export; a sink is opened by the first statement of an export only, closed
\* when the export returns or raises, and not touched again but by the next
\* export.
WriterSteps ==
    /\ \A s \in Streams :
          files'[FilenameOf(s)] # files[FilenameOf(s)] =>
              /\ s = stream
              /\ gz' = "open"
              /\ gz = "open" \/ pc = "open"
    /\ (gz' = "open" /\ gz # "open") => (pc = "open" /\ ex' = ExInit)
    /\ (gz = "open" /\ gz' # "open") => (gz' = "closed" /\ pc' \in {"returned", "failed"})
    /\ (gz = "closed" /\ gz' # "closed") => pc = "open"

\* Every call of the exporter opens its sink, and has closed it when it
\* returns or raises.
EveryExportOpens ==
    /\ (pc = "open" /\ pc' # "open") => (gz' = "open" /\ pc' = "request")
    /\ (pc \in {"request", "fetch", "read"} /\ pc' \in {"returned", "failed"}) =>
          (gz = "open" /\ gz' = "closed")

\* The artifact files are hashed after their sinks were closed, and are not
\* written afterwards.
HashedAfterClose ==
    /\ shas' # shas =>
          /\ gz = "closed"
          /\ \A s \in Streams : metas[s] # None
          /\ UNCHANGED files
    /\ \A s \in Streams :
          shas[s] # None => files'[FilenameOf(s)] = files[FilenameOf(s)]

\* C20: each destination file is opened once by its export, written only
\* while open and closed once, on return and on failure alike; the changes
\* export starts with the snapshots sink closed; the files are hashed after
\* both sinks were closed and never written afterwards.
C20_SinkOwnership ==
    /\ [][WriterSteps /\ EveryExportOpens /\ HashedAfterClose]_vars
    /\ []((pc = "open" /\ stream = "changes") => gz = "closed")
    /\ [](\A s \in Streams :
             shas[s] # None => shas[s] = Some(Sha256(files[FilenameOf(s)])))


\* ------------------------------------------------ the order of the checks

\* The checks of the validator in the order the claim gives them, and in
\* the order with the presence of the three artifact objects as a check of
\* its own before either artifact is parsed.
StatedOrder ==
    <<"files", "object", "version", "strings", "exportsManifest", "snapshots",
      "changes", "truncated", "empty", "artifact_files", "listing">>
SplitOrder ==
    <<"files", "object", "version", "strings", "exportsManifest",
      "artifact_objects", "snapshots", "changes", "truncated", "empty",
      "artifact_files", "listing">>

\* The validation step a reported error belongs to; split says whether the presence
\* of the artifact objects is a check of its own.
CheckOfError(err, split) ==
    CASE err = NoErr -> "none"
      [] err.check = "missing_file" -> "files"
      [] err.check \in {"json_decode", "manifest_not_object"} -> "object"
      [] err.check = "truncated" -> "truncated"
      [] err.check = "empty" -> "empty"
      [] err.check \in {"missing_artifact_file", "manifest_sha_mismatch", "gzip_invalid"} ->
            "artifact_files"
      [] err.check \in {"sums_invalid_line", "sums_empty", "sums_missing_file",
                        "sums_mismatch"} -> "listing"
      [] err.name = "manifest" /\ err.field = "version" -> "version"
      [] err.name = "manifest" /\ err.field \in {"tag", "releasedAtUtc", "apiBase"} ->
            "strings"
      [] err.name = "manifest" /\ err.field = "exportsManifest" -> "exportsManifest"
      [] err.name = "manifest" /\ err.field \in {"artifacts", "snapshots"} ->
            IF split THEN "artifact_objects" ELSE "snapshots"
      [] err.name = "manifest" /\ err.field = "changes" ->
            IF split THEN "artifact_objects" ELSE "changes"
      [] OTHER -> err.name

\* Is the manifest of the directory a JSON object, so that its fields can
\* be looked at?
ManifestIsObject(dir) ==
    /\ Exists(dir, "manifest.json")
    /\ dir["manifest.json"].kind = "json"
    /\ dir["manifest.json"].doc.t = "obj"

\* Is artifacts[s] of the manifest m a JSON object?
ArtifactIsObject(m, s) ==
    /\ Has(m, "artifacts")
    /\ m["artifacts"].t = "obj"
    /\ Has(m["artifacts"].o, s)
    /\ m["artifacts"].o[s].t = "obj"

\* The artifacts of the manifest that parse into an Artifact.
ParsedArtifacts(m) ==
    {ParseArtifact(m["artifacts"].o[s].o, s).art :
        s \in {t \in Streams : /\ ArtifactIsObject(m, t)
                               /\ ParseArtifact(m["artifacts"].o[t].o, t).err = NoErr}}

\* The checks a bundle fails, each looked at on its own, whatever the other
\* checks say; a check that cannot be looked at (a field of a manifest that
\* is no object, a policy on an artifact that does not parse) is not failed.
ViolatedChecks(dir, allow_empty, allow_truncated, split) ==
    LET m == dir["manifest.json"].doc.o
        StrBad(k) == ~Has(m, k) \/ ~IsNonEmptyStr(m[k])
        ArtBad(s) == IF ArtifactIsObject(m, s)
                     THEN ParseArtifact(m["artifacts"].o[s].o, s).err # NoErr
                     ELSE ~split
        arts == ParsedArtifacts(m)
    IN  {c \in {"files"} : ~Exists(dir, "manifest.json") \/ ~Exists(dir, "SHA256SUMS")}
        \cup {c \in {"object"} : Exists(dir, "manifest.json") /\ ~ManifestIsObject(dir)}
        \cup {c \in {"listing"} :
                 Exists(dir, "SHA256SUMS") /\ ValidateSha256sums(dir) # NoErr}
        \cup (IF ~ManifestIsObject(dir) THEN {}
              ELSE {c \in {"version"} :
                       ~Has(m, "version") \/ ~IsInt(m["version"])
                           \/ IntOf(m["version"]) <= 0}
                   \cup {c \in {"strings"} :
                            StrBad("tag") \/ StrBad("releasedAtUtc") \/ StrBad("apiBase")}
                   \cup {c \in {"exportsManifest"} :
                            \/ ~Has(m, "exportsManifest")
                            \/ m["exportsManifest"].t # "obj"
                            \/ ~Has(m["exportsManifest"].o, "enabled")}
                   \cup {c \in {"artifact_objects"} :
                            split /\ \E s \in Streams : ~ArtifactIsObject(m, s)}
                   \cup {c \in {"snapshots"} : ArtBad("snapshots")}
                   \cup {c \in {"changes"} : ArtBad("changes")}
                   \cup {c \in {"truncated"} :
                            ~allow_truncated /\ \E a \in arts : a.truncated}
                   \cup {c \in {"empty"} : ~allow_empty /\ \E a \in arts : a.rows = 0}
                   \cup {c \in {"artifact_files"} :
                            \E a \in arts : ArtifactFileError(dir, a) # NoErr})

\* The earliest check of the order that is among the failed ones.
EarliestOf(order, failed) ==
    LET at == {k \in 1..Len(order) : order[k] \in failed}
    IN  IF at = {} THEN "none"
        ELSE order[CHOOSE k \in at : \A j \in at : k <= j]

\* The failed checks of the validated bundle, under the overrides given.
FailedChecks(split) ==
    ViolatedChecks(files, TheValue(vres).allow_empty, TheValue(vres).allow_truncated,
                   split)

\* C21 as stated: the validator reports the earliest failed check of the
\* order files, manifest object, version, tag/releasedAtUtc/apiBase,
\* exportsManifest, snapshots artifact, changes artifact, truncated policy,
\* empty policy, artifact files, checksum listing.
C21_FirstViolationAsStated ==
    vres # None =>
        CheckOfError(TheValue(vres).err, FALSE) = EarliestOf(StatedOrder, FailedChecks(FALSE))

\* C21, amended: the validator reports the earliest failed check of the
\* order files, manifest object, version, tag/releasedAtUtc/apiBase,
\* exportsManifest, presence of the objects artifacts, artifacts.snapshots
\* and artifacts.changes, fields and invariants of the snapshots artifact,
\* fields and invariants of the changes artifact, truncated policy, empty
\* policy, artifact files, checksum listing; and it accepts the bundle
\* exactly when no check fails.
C21_FirstViolation ==
    vres # None =>
        /\ CheckOfError(TheValue(vres).err, TRUE) = EarliestOf(SplitOrder, FailedChecks(TRUE))
        /\ TheValue(vres).ok <=> FailedChecks(TRUE) = {}

\* A bundle whose snapshots entry breaks an invariant and whose changes
\* entry is missing was validated, and the missing object was reported.
C21_Witness ==
    /\ vres # None
    /\ {"artifact_objects", "snapshots"} \subseteq FailedChecks(TRUE)
    /\ TheValue(vres).err = VErr("missing", "manifest", "changes")

\* ------------------------------------------------------ what the sink holds

\* The lines of the running export's sink.
SinkLines == files[FilenameOf(stream)].rows

\* The sink holds the non-blank lines of the pages, in page order and line
\* order, each once, each ending with a newline.
SinkIsPassthroughOf(pages) ==
    LET sent == NonBlank(Flatten(pages))
    IN  /\ Len(SinkLines) = Len(sent)
        /\ \A k \in 1..Len(sent) :
              /\ SinkLines[k].kind = sent[k].kind
              /\ SinkLines[k].id = sent[k].id
              /\ SinkLines[k].nl

\* C22: when the export returns, the sink is the concatenation of the
\* non-blank lines of every fetched page, each written once and ending with
\* a newline, and rows is the number of lines written; and while a page
\* request is being attempted or retried, the sink holds the lines of the
\* pages fetched so far and nothing else.
C22_VerbatimPassthrough ==
    /\ pc = "returned" =>
          /\ SinkIsPassthroughOf(served)
          /\ TheValue(result).rows = Len(SinkLines)
    /\ pc = "fetch" =>
          /\ SinkIsPassthroughOf(served)
          /\ ex.rows = Len(SinkLines)

\* An export returned after an attempt was answered with a status other than
\* 200 and retried, over pages with a blank line and with a last line that
\* came without a newline.
C22_Witness ==
    /\ pc = "returned"
    /\ leaked
    /\ SinkLines # <<>>
    /\ \E k \in 1..Len(Flatten(served)) : Flatten(served)[k].kind = "blank"
    /\ \E k \in 1..Len(Flatten(served)) :
          Flatten(served)[k].kind = "row" /\ ~Flatten(served)[k].nl

\* ------------------------------------------------------------ the page size

\* min(requestedLimit, maxLimit), a capability document without maxLimit
\* setting no cap.
StatedPageSize(requested, maxLimit) ==
    IF maxLimit = None THEN requested ELSE Min(requested, TheValue(maxLimit))

\* C23: every page request of both exports asks for
\* min(requestedLimit, maxLimit) rows, whatever limit was requested and
\* whatever maxLimit the capability document carries, 0 and none included.
C23_PageSize ==
    exports_manifest # None =>
        \A k \in 1..Len(reqLog) :
            reqLog[k].path \in {PathOf(s) : s \in Streams} =>
                reqLog[k].limit =
                    StatedPageSize(args.limit, TheValue(exports_manifest).maxLimit)

\* ------------------------------------------------- what requestsMade counts

\* The pages served that hold at least one non-blank line.
NonEmptyPages == {k \in 1..Len(served) : NonBlank(served[k]) # <<>>}

\* C24: requestsMade counts the pages read to their end, not the attempts:
\* while a page request is attempted or retried it is the number of pages
\* read so far, and when the export returns it is the number of non-empty
\* pages plus one, so at least 2 when rows > 0 and 1 exactly when rows = 0.
C24_RequestsMadeCountsPages ==
    /\ pc = "fetch" => ex.requests_made = Len(served)
    /\ pc = "returned" =>
          LET r == TheValue(result)
          IN  /\ r.requestsMade = Cardinality(NonEmptyPages) + 1
              /\ r.rows > 0 => r.requestsMade >= 2
              /\ r.requestsMade = 1 <=> r.rows = 0

\* An export with rows returned after an attempt was answered with a status
\* other than 200 and retried.
C24_Witness ==
    /\ pc = "returned"
    /\ leaked
    /\ TheValue(result).rows > 0
    /\ TheValue(result).requestsMade = Cardinality(NonEmptyPages) + 1
====
